---- MODULE Spec2Model ----
(***************************************************************************)
(* Model of the semantic-integration-engine embedding services.            *)
(*                                                                         *)
(*  - embedding/model.py, embedding/app.py: the hash embedder              *)
(*    compute_embedding and the /v1/embeddings, /health endpoints.         *)
(*  - embedding/chroma_server.py: the collection gateway in front of a     *)
(*    Chroma PersistentClient (the vector index).                          *)
(*                                                                         *)
(* Two specifications share the variables: SpecEmbed runs compute_embedding*)
(* statement by statement on one input text; Spec runs the gateway's       *)
(* request handlers, one whole handler per step, against the index.        *)
(***************************************************************************)
EXTENDS Integers, Sequences, FiniteSets, TLC

VARIABLES
    emb,      \* compute_embedding's frame: pc, text, tokens, t, i, h, vec, out
    index,    \* the Chroma client's collections: name -> NoCollection or a collection
    last      \* the request just handled by the gateway and its response

vars == <<emb, index, last>>

(***************************************************************************)
(* Bounds of the model.                                                    *)
(***************************************************************************)
\* longest input text of compute_embedding, in characters
MaxLen == 3

(***************************************************************************)
(* embedding/model.py                                                      *)
(***************************************************************************)
EMBED_DIM == 128

\* the length of a SHA-256 digest, hashlib.sha256(...).digest()
DIGEST_SIZE == 32

\* the characters texts are made of; " " is the only whitespace
Chars == {"a", "b", " "}

Whitespace == {" "}

InputTexts == UNION {[1..n -> Chars] : n \in 0..MaxLen}

\* str.split() with no separator: maximal runs of non-whitespace characters,
\* no empty tokens; cur is the run being read, out the tokens found so far
RECURSIVE SplitFrom(_, _, _, _)
SplitFrom(text, p, cur, out) ==
    IF p > Len(text)
    THEN IF cur = <<>> THEN out ELSE Append(out, cur)
    ELSE IF text[p] \in Whitespace
         THEN SplitFrom(text, p + 1, <<>>, IF cur = <<>> THEN out ELSE Append(out, cur))
         ELSE SplitFrom(text, p + 1, Append(cur, text[p]), out)

split(text) == SplitFrom(text, 1, <<>>, <<>>)

\* hashlib.sha256(token.encode("utf-8")).digest(): the 32 bytes of the digest,
\* tabulated for the tokens the bounded texts contain
sha256_digest(token) ==
    CASE token = <<"a">> ->
         <<202, 151, 129, 18, 202, 27, 189, 202, 250, 194, 49, 179, 154, 35, 220, 77, 167, 134, 239, 248, 20, 124, 78, 114, 185, 128, 119, 133, 175, 238, 72, 187>>
      [] token = <<"b">> ->
         <<62, 35, 232, 22, 0, 57, 89, 74, 51, 137, 79, 101, 100, 225, 177, 52, 139, 189, 122, 0, 136, 212, 44, 74, 203, 115, 238, 174, 213, 156, 0, 157>>
      [] token = <<"a", "a">> ->
         <<150, 27, 109, 211, 237, 227, 203, 142, 203, 170, 203, 214, 141, 224, 64, 205, 120, 235, 46, 213, 136, 145, 48, 204, 235, 76, 73, 38, 142, 164, 213, 6>>
      [] token = <<"a", "b">> ->
         <<251, 142, 32, 252, 46, 76, 63, 36, 140, 96, 195, 155, 214, 82, 243, 193, 52, 114, 152, 187, 151, 123, 139, 77, 89, 3, 184, 80, 85, 98, 6, 3>>
      [] token = <<"b", "a">> ->
         <<151, 15, 81, 156, 44, 173, 188, 239, 177, 232, 22, 148, 249, 4, 188, 98, 41, 221, 42, 131, 0, 233, 140, 109, 13, 79, 196, 191, 202, 88, 65, 64>>
      [] token = <<"b", "b">> ->
         <<59, 100, 219, 149, 203, 85, 199, 99, 57, 28, 112, 113, 8, 72, 154, 225, 139, 65, 18, 215, 131, 48, 13, 227, 142, 3, 59, 76, 152, 195, 222, 175>>
      [] token = <<"a", "a", "a">> ->
         <<152, 52, 135, 109, 207, 176, 92, 177, 103, 165, 194, 73, 83, 235, 165, 140, 74, 200, 155, 26, 223, 87, 242, 143, 47, 157, 9, 175, 16, 126, 232, 240>>
      [] token = <<"a", "a", "b">> ->
         <<56, 118, 14, 171, 182, 102, 232, 230, 30, 230, 40, 161, 124, 64, 144, 204, 80, 114, 142, 9, 95, 242, 66, 24, 17, 157, 81, 189, 34, 71, 83, 99>>
      [] token = <<"a", "b", "a">> ->
         <<225, 36, 173, 204, 225, 251, 47, 136, 225, 234, 121, 156, 61, 8, 32, 132, 94, 211, 67, 230, 199, 57, 229, 65, 49, 252, 179, 165, 110, 75, 193, 189>>
      [] token = <<"a", "b", "b">> ->
         <<113, 94, 223, 139, 168, 114, 148, 32, 205, 77, 28, 232, 94, 214, 25, 84, 169, 245, 49, 248, 197, 72, 223, 114, 140, 64, 126, 255, 232, 57, 41, 109>>
      [] token = <<"b", "a", "a">> ->
         <<102, 94, 218, 230, 213, 38, 102, 209, 62, 53, 115, 204, 66, 246, 121, 156, 164, 21, 184, 115, 18, 195, 189, 15, 163, 126, 164, 78, 13, 225, 254, 100>>
      [] token = <<"b", "a", "b">> ->
         <<236, 221, 151, 64, 92, 121, 180, 8, 238, 119, 145, 2, 157, 5, 210, 181, 120, 147, 217, 176, 106, 18, 130, 83, 30, 13, 247, 41, 218, 239, 206, 245>>
      [] token = <<"b", "b", "a">> ->
         <<50, 78, 141, 87, 22, 175, 228, 119, 81, 24, 254, 18, 37, 111, 211, 212, 136, 204, 229, 117, 227, 117, 206, 111, 142, 177, 108, 180, 181, 187, 181, 211>>
      [] token = <<"b", "b", "b">> ->
         <<62, 116, 75, 157, 195, 147, 137, 186, 240, 197, 160, 102, 5, 137, 184, 64, 47, 61, 187, 73, 184, 155, 62, 117, 242, 201, 53, 88, 82, 163, 198, 119>>
      [] token = <<"a", "a", "a", "a">> ->
         <<97, 190, 85, 168, 226, 246, 180, 225, 114, 51, 139, 221, 241, 132, 214, 219, 238, 41, 201, 136, 83, 224, 160, 72, 94, 206, 231, 242, 123, 154, 240, 180>>
      [] token = <<"a", "a", "a", "b">> ->
         <<133, 233, 15, 127, 14, 113, 7, 152, 6, 70, 152, 49, 137, 90, 205, 98, 1, 51, 187, 224, 147, 124, 197, 64, 53, 98, 150, 139, 188, 125, 141, 30>>
      [] token = <<"a", "a", "b", "a">> ->
         <<105, 66, 59, 101, 142, 232, 176, 128, 71, 82, 117, 220, 55, 98, 105, 247, 31, 54, 33, 27, 152, 79, 56, 129, 124, 109, 113, 214, 34, 109, 70, 72>>
      [] token = <<"a", "a", "b", "b">> ->
         <<72, 107, 52, 37, 11, 212, 64, 12, 10, 169, 5, 22, 252, 233, 169, 192, 99, 58, 146, 46, 180, 13, 8, 40, 207, 41, 155, 196, 232, 37, 172, 244>>
      [] token = <<"a", "b", "a", "a">> ->
         <<240, 44, 183, 124, 3, 105, 205, 7, 203, 119, 49, 107, 198, 90, 122, 138, 230, 127, 60, 184, 219, 3, 5, 98, 169, 227, 240, 34, 250, 100, 99, 202>>
      [] token = <<"a", "b", "a", "b">> ->
         <<166, 103, 40, 38, 117, 244, 135, 96, 33, 211, 146, 170, 101, 146, 243, 157, 171, 247, 24, 116, 140, 75, 115, 133, 99, 203, 157, 93, 200, 242, 31, 36>>
      [] token = <<"a", "b", "b", "a">> ->
         <<226, 33, 21, 181, 215, 102, 64, 226, 56, 155, 202, 194, 92, 70, 162, 223, 3, 178, 223, 101, 124, 91, 63, 243, 44, 186, 237, 20, 31, 142, 142, 240>>
      [] token = <<"a", "b", "b", "b">> ->
         <<1, 209, 98, 165, 201, 93, 70, 152, 192, 163, 231, 102, 174, 128, 216, 89, 148, 181, 73, 184, 119, 237, 39, 88, 3, 114, 95, 67, 218, 220, 131, 189>>
      [] token = <<"b", "a", "a", "a">> ->
         <<165, 102, 162, 143, 59, 134, 6, 137, 234, 128, 31, 155, 44, 69, 65, 20, 227, 208, 25, 195, 48, 23, 223, 126, 245, 133, 155, 120, 149, 59, 4, 21>>
      [] token = <<"b", "a", "a", "b">> ->
         <<84, 119, 211, 25, 114, 54, 64, 140, 94, 157, 17, 187, 211, 50, 220, 149, 23, 107, 113, 229, 129, 239, 202, 211, 89, 59, 30, 155, 228, 131, 141, 228>>
      [] token = <<"b", "a", "b", "a">> ->
         <<231, 90, 108, 212, 58, 22, 194, 243, 29, 26, 60, 23, 112, 10, 246, 77, 54, 88, 163, 128, 196, 157, 101, 178, 12, 199, 91, 31, 124, 14, 0, 27>>
      [] token = <<"b", "a", "b", "b">> ->
         <<57, 40, 15, 177, 236, 156, 226, 249, 167, 242, 209, 255, 150, 163, 10, 230, 5, 213, 34, 14, 94, 41, 205, 140, 163, 171, 216, 171, 45, 160, 95, 12>>
      [] token = <<"b", "b", "a", "a">> ->
         <<96, 16, 185, 23, 60, 20, 184, 198, 174, 237, 178, 101, 82, 13, 144, 226, 79, 35, 33, 210, 86, 21, 87, 220, 197, 159, 7, 121, 159, 97, 50, 74>>
      [] token = <<"b", "b", "a", "b">> ->
         <<43, 205, 11, 225, 21, 93, 164, 55, 68, 197, 214, 109, 183, 196, 118, 5, 128, 13, 204, 157, 246, 244, 88, 115, 83, 71, 240, 88, 190, 247, 135, 73>>
      [] token = <<"b", "b", "b", "a">> ->
         <<146, 123, 122, 176, 9, 235, 108, 65, 160, 248, 12, 181, 41, 43, 222, 133, 25, 246, 107, 249, 136, 114, 206, 13, 190, 205, 193, 158, 82, 63, 0, 134>>
      [] token = <<"b", "b", "b", "b">> ->
         <<129, 204, 91, 23, 1, 134, 116, 180, 1, 180, 47, 53, 186, 7, 187, 121, 226, 17, 35, 156, 35, 191, 254, 101, 141, 161, 87, 126, 62, 100, 104, 119>>

\* np.zeros(EMBED_DIM): accumulators indexed from 0 as in the source; an
\* accumulator holds the sum of the bytes added to it, the division by 255.0
\* being common to every addend
zeros == [j \in 0..(EMBED_DIM - 1) |-> 0]

\* h[i] on a bytes object: defined for 0 <= i < len(h), IndexError beyond
InRange(h, i) == i < Len(h)

ByteAt(h, i) == h[i + 1]

\* np.linalg.norm(vec) squared, in units of 1/255^2: the sum of the squares
\* of accumulators lo..hi, by halves
RECURSIVE SumSq(_, _, _)
SumSq(vec, lo, hi) ==
    IF lo > hi THEN 0
    ELSE IF lo = hi THEN vec[lo] * vec[lo]
    ELSE SumSq(vec, lo, (lo + hi) \div 2) + SumSq(vec, (lo + hi) \div 2 + 1, hi)

norm2(vec) == SumSq(vec, 0, EMBED_DIM - 1)

EmbFrame(text) ==
    [pc |-> "start", text |-> text, tokens |-> <<>>, t |-> 1, i |-> 0,
     h |-> <<>>, vec |-> <<>>, out |-> <<>>]

\* line 13 and the evaluation of text.split() at line 15
EmbStart ==
    /\ emb.pc = "start"
    /\ emb' = [emb EXCEPT !.pc = "token", !.vec = zeros,
                          !.tokens = split(emb.text), !.t = 1]
    /\ UNCHANGED <<index, last>>

\* line 15-16: the outer loop takes the next token and hashes it, or ends
EmbToken ==
    /\ emb.pc = "token"
    /\ IF emb.t <= Len(emb.tokens)
       THEN emb' = [emb EXCEPT !.pc = "inner", !.i = 0,
                               !.h = sha256_digest(emb.tokens[emb.t])]
       ELSE emb' = [emb EXCEPT !.pc = "normalize"]
    /\ UNCHANGED <<index, last>>

\* line 17-18: one iteration of the inner loop, vec[i] += h[i] / 255.0
EmbInner ==
    /\ emb.pc = "inner"
    /\ IF emb.i >= EMBED_DIM
       THEN emb' = [emb EXCEPT !.pc = "token", !.t = emb.t + 1]
       ELSE IF InRange(emb.h, emb.i)
            THEN emb' = [emb EXCEPT !.vec[emb.i] = emb.vec[emb.i] + ByteAt(emb.h, emb.i),
                                    !.i = emb.i + 1]
            ELSE emb' = [emb EXCEPT !.pc = "raised"]
    /\ UNCHANGED <<index, last>>

\* line 21-25: L2 normalisation; out is the returned list, component j being
\* num[j] / sqrt(norm2) when norm2 > 0 and num[j] = 0 otherwise
EmbNormalize ==
    /\ emb.pc = "normalize"
    /\ emb' = [emb EXCEPT !.pc = "done",
                          !.out = [num |-> emb.vec, norm2 |-> norm2(emb.vec)]]
    /\ UNCHANGED <<index, last>>

compute_embedding == EmbStart \/ EmbToken \/ EmbInner \/ EmbNormalize

(***************************************************************************)
(* embedding/chroma_server.py: the values requests and the index hold      *)
(***************************************************************************)
\* longest ids list of an add or delete-documents request
MaxIds == 2

Names == {"docs", "missing"}

Ids == {"a", "b"}

DocTexts == {"cat", "dog"}

\* a metadata mapping is the set of its <<key, value>> entries
EmptyMeta == {}

CustomMeta == {<<"source", "user">>}

\* a default collection metadata with nothing in it
EMPTY_COLLECTION_METADATA == {}

\* line 23-26
DEFAULT_COLLECTION_METADATA == {<<"initialized", TRUE>>}

\* Optional[...] fields of the request models (line 29-38)
None == [some |-> FALSE]

Some(v) == [some |-> TRUE, val |-> v]

SeqsUpTo(S, n) == UNION {[1..k -> S] : k \in 0..n}

Range(s) == {s[p] : p \in DOMAIN s}

\* the metadatas an add request may carry for n ids: none, one custom mapping
\* per id, or the same with an empty mapping first
MetadataChoices(n) ==
    {None, Some([p \in 1..n |-> CustomMeta]),
     Some([p \in 1..n |-> IF p = 1 THEN EmptyMeta ELSE CustomMeta])}

\* the documents an add request may carry for n ids: one text per id (all
\* "cat", all "dog", or "cat" first and "dog" after it), or one text too few
DocumentChoices(n) ==
    {[p \in 1..n |-> "cat"], [p \in 1..n |-> "dog"],
     [p \in 1..n |-> IF p = 1 THEN "cat" ELSE "dog"], [p \in 1..(n - 1) |-> "cat"]}

\* AddDocumentsRequest (line 29-33).  embeddings is handed to the index
\* untouched and decides nothing modelled here.
AddDocumentsRequests ==
    UNION {
        { [ids |-> ids, documents |-> documents, metadatas |-> metadatas] :
            documents \in DocumentChoices(Len(ids)),
            metadatas \in MetadataChoices(Len(ids)) }
        : ids \in SeqsUpTo(Ids, MaxIds) }

\* DeleteDocumentsRequest (line 40-41)
DeleteDocumentsRequests == {[ids |-> ids] : ids \in SeqsUpTo(Ids, MaxIds)}

\* QueryRequest (line 35-38): which of the two query fields are supplied
QueryRequests ==
    [query_texts : BOOLEAN, query_embeddings : BOOLEAN, n_results : {1, 5}]

\* EmbedRequest (line 43-44)
EmbedRequests == {[texts |-> texts] : texts \in SeqsUpTo(DocTexts, MaxIds)}

\* An index call can raise for reasons of its own (storage unreachable, a
\* name it rejects): "client" fails the call on the client (line 59, 79, 88,
\* 97, 105, 113, 121, 140, 149), "collection" the call on the collection
\* handle (line 98, 127, 141, 150).
Faults == {"none", "client", "collection"}

(***************************************************************************)
(* The Chroma client as chroma_server.py uses it.  The index is the set of *)
(* its collections [name, metadata, docs], docs being the set of the       *)
(* collection's documents [id, document, metadata].  Neither the order of  *)
(* the collections nor that of the documents is modelled.                  *)
(***************************************************************************)
Present(idx) == {c.name : c \in idx}

\* the collections called name
Named(idx, name) == {c \in idx : c.name = name}

\* the collection a handle on name reads
Collection(idx, name) == CHOOSE c \in Named(idx, name) : TRUE

DocsOf(idx, name) == IF name \in Present(idx) THEN Collection(idx, name).docs ELSE {}

DocIds(docs) == {d.id : d \in docs}

\* a get-or-create that forgets the get: a fresh collection every time
client_create_fresh_collection(idx, name, metadata) ==
    {c \in idx : c.name # name} \cup {[name |-> name, metadata |-> metadata, docs |-> {}]}

\* a get-or-create that forgets the create
client_get_only_collection(idx, name, metadata) == idx

\* client.get_or_create_collection(name=name, metadata=metadata)
client_get_or_create_collection(idx, name, metadata) ==
    IF name \in Present(idx)
    THEN idx
    ELSE idx \cup {[name |-> name, metadata |-> metadata, docs |-> {}]}

\* a delete that takes the documents of every collection with it
client_delete_collection_and_clear(idx, name) ==
    {[c EXCEPT !.docs = {}] : c \in {c \in idx : c.name # name}}

\* client.delete_collection(name=name) on a collection that exists
client_delete_collection(idx, name) == {c \in idx : c.name # name}

\* col.count()
col_count(docs) == Cardinality(docs)

\* what col.add validates before writing: ids non-empty and distinct,
\* documents and metadatas as long as ids, no empty metadata mapping
AddAccepted(ids, documents, metadatas) ==
    /\ Len(ids) > 0
    /\ Cardinality(Range(ids)) = Len(ids)
    /\ Len(documents) = Len(ids)
    /\ Len(metadatas) = Len(ids)
    /\ \A p \in DOMAIN metadatas : metadatas[p] # EmptyMeta

\* an add that inserts every record, whether or not its id is already held
RECURSIVE col_add_unchecked(_, _, _, _)
col_add_unchecked(docs, ids, documents, metadatas) ==
    IF ids = <<>>
    THEN docs
    ELSE col_add_unchecked(
            docs \cup {[id |-> Head(ids), document |-> Head(documents),
                        metadata |-> Head(metadatas)]},
            Tail(ids), Tail(documents), Tail(metadatas))

\* an add that stops after the first record
col_add_first_only(docs, ids, documents, metadatas) ==
    IF ids = <<>> \/ Head(ids) \in DocIds(docs)
    THEN docs
    ELSE docs \cup {[id |-> Head(ids), document |-> Head(documents),
                     metadata |-> Head(metadatas)]}

\* col.add(ids, documents, metadatas) once validated: a record whose id the
\* collection already holds is skipped, the others are inserted
RECURSIVE col_add(_, _, _, _)
col_add(docs, ids, documents, metadatas) ==
    IF ids = <<>>
    THEN docs
    ELSE col_add(
            IF Head(ids) \in DocIds(docs)
            THEN docs
            ELSE docs \cup {[id |-> Head(ids), document |-> Head(documents),
                             metadata |-> Head(metadatas)]},
            Tail(ids), Tail(documents), Tail(metadatas))

\* a col.delete that removes the first id of the list only
col_delete_first_only(docs, ids) == {d \in docs : d.id # ids[1]}

\* col.delete(ids=ids): ids the collection does not hold are no-ops
col_delete(docs, ids) == {d \in docs : d.id \notin Range(ids)}

\* col.delete validates its ids as col.add does (no id twice) and requires
\* that they name something to delete
DeleteAccepted(ids) ==
    /\ Len(ids) > 0
    /\ Cardinality(Range(ids)) = Len(ids)

\* col.query: exactly one of query_texts and query_embeddings is required
QueryAccepted(req) == req.query_texts # req.query_embeddings

\* col.query's result: at most n_results of the collection's documents
QueryResults(docs, n) ==
    {r \in SUBSET docs :
        Cardinality(r) = (IF Cardinality(docs) < n THEN Cardinality(docs) ELSE n)}

\* a replacement that drops a collection left without documents
WithDocsDroppingEmpty(idx, name, docs) ==
    IF docs = {}
    THEN {c \in idx : c.name # name}
    ELSE {IF c.name = name THEN [c EXCEPT !.docs = docs] ELSE c : c \in idx}

\* the index with the documents of the collections called name replaced
WithDocs(idx, name, docs) ==
    {IF c.name = name THEN [c EXCEPT !.docs = docs] ELSE c : c \in idx}

(***************************************************************************)
(* embedding/chroma_server.py: the request handlers.  A handler runs from  *)
(* the idle gateway, leaves the request it served, the fault the index met *)
(* and its response in last, and the response is then returned to the      *)
(* caller.  raised is TRUE when the handler ends in HTTPException(500, ...)*)
(* instead of a body.                                                      *)
(***************************************************************************)
NoRequest == [op |-> "none"]

Idle == last.op = "none"

Returned(op, name, req, fault, body) ==
    [op |-> op, name |-> name, req |-> req, fault |-> fault, raised |-> FALSE,
     body |-> body]

Raised(op, name, req, fault, detail, cause) ==
    [op |-> op, name |-> name, req |-> req, fault |-> fault, raised |-> TRUE,
     body |-> [detail |-> detail, cause |-> cause]]

\* str(e) of the exception an index call ended in
GetError(idx, name, fault) ==
    IF fault = "client" THEN "index failure"
    ELSE IF name \notin Present(idx) THEN "does not exist"
    ELSE "None"

\* a health whose status is degraded only when both sub-checks fail
health_both_fail(fault) ==
    /\ Idle
    /\ LET model_ready == TRUE
           chroma_ready == fault # "client"
           degraded == ~(model_ready \/ chroma_ready)
       IN last' = Returned("health", "", None, fault,
                    [status |-> IF degraded THEN "degraded" ELSE "ok",
                     model_ready |-> model_ready,
                     chroma_ready |-> chroma_ready,
                     chroma_error |-> IF chroma_ready THEN "None" ELSE "index failure"])
    /\ UNCHANGED <<emb, index>>

\* line 52-74
health(fault) ==
    /\ Idle
    /\ LET model_ready == TRUE
           chroma_ready == fault # "client"
           degraded == ~(model_ready /\ chroma_ready)
       IN last' = Returned("health", "", None, fault,
                    [status |-> IF degraded THEN "degraded" ELSE "ok",
                     model_ready |-> model_ready,
                     chroma_ready |-> chroma_ready,
                     chroma_error |-> IF chroma_ready THEN "None" ELSE "index failure"])
    /\ UNCHANGED <<emb, index>>

\* line 76-82
list_collections(fault) ==
    /\ Idle
    /\ last' = IF fault = "client"
               THEN Raised("list_collections", "", None, fault, "List failed", "index failure")
               ELSE Returned("list_collections", "", None, fault,
                             [collections |-> Present(index)])
    /\ UNCHANGED <<emb, index>>

\* an exists probe that raises on a failed lookup, as collection_count does
collection_exists_raising(name, fault) ==
    /\ Idle
    /\ LET error == GetError(index, name, fault)
       IN last' = IF error # "None"
                  THEN Raised("collection_exists", name, None, fault, "Exists failed", error)
                  ELSE Returned("collection_exists", name, None, fault,
                                [exists |-> TRUE, error |-> "None"])
    /\ UNCHANGED <<emb, index>>

\* line 85-91
collection_exists(name, fault) ==
    /\ Idle
    /\ LET error == GetError(index, name, fault)
       IN last' = Returned("collection_exists", name, None, fault,
                           [exists |-> error = "None", error |-> error])
    /\ UNCHANGED <<emb, index>>

\* a count that opens the collection with get-or-create, as add and query do
collection_count_creating(name, fault) ==
    /\ Idle
    /\ LET col == client_get_or_create_collection(index, name,
                                                  DEFAULT_COLLECTION_METADATA)
       IN IF fault # "none"
          THEN /\ index' = index
               /\ last' = Raised("collection_count", name, None, fault,
                                 "Count failed", "index failure")
          ELSE /\ index' = col
               /\ last' = Returned("collection_count", name, None, fault,
                                   [count |-> col_count(DocsOf(col, name))])
    /\ UNCHANGED emb

\* line 94-100
collection_count(name, fault) ==
    /\ Idle
    /\ LET error == IF GetError(index, name, fault) # "None"
                    THEN GetError(index, name, fault)
                    ELSE IF fault = "collection" THEN "index failure" ELSE "None"
       IN last' = IF error # "None"
                  THEN Raised("collection_count", name, None, fault, "Count failed", error)
                  ELSE Returned("collection_count", name, None, fault,
                                [count |-> col_count(DocsOf(index, name))])
    /\ UNCHANGED <<emb, index>>

\* line 102-108
collection_create(name, fault) ==
    /\ Idle
    /\ IF fault = "client"
       THEN /\ index' = index
            /\ last' = Returned("collection_create", name, None, fault,
                                [created |-> FALSE, error |-> "index failure"])
       ELSE /\ index' = client_get_or_create_collection(index, name,
                                                        DEFAULT_COLLECTION_METADATA)
            /\ last' = Returned("collection_create", name, None, fault,
                                [created |-> TRUE, error |-> "None"])
    /\ UNCHANGED emb

\* line 110-116
collection_delete(name, fault) ==
    /\ Idle
    /\ LET error == GetError(index, name, fault)
       IN IF error # "None"
          THEN /\ index' = index
               /\ last' = Raised("collection_delete", name, None, fault, "Delete failed", error)
          ELSE /\ index' = client_delete_collection(index, name)
               /\ last' = Returned("collection_delete", name, None, fault, [deleted |-> TRUE])
    /\ UNCHANGED emb

\* a synthesis that keys every mapping by the first id of the request
AddMetadatasFirstId(req) ==
    IF ~req.metadatas.some
    THEN [p \in 1..Len(req.ids) |-> {<<"id", req.ids[1]>>}]
    ELSE req.metadatas.val

\* line 122-126: the metadatas handed to col.add
AddMetadatas(req) ==
    IF ~req.metadatas.some
    THEN [p \in 1..Len(req.ids) |-> {<<"id", req.ids[p]>>}]
    ELSE req.metadatas.val

\* an add_documents that validates the request before it touches the index
collection_add_validating_first(name, req, fault) ==
    /\ Idle
    /\ LET col == client_get_or_create_collection(index, name,
                                                  DEFAULT_COLLECTION_METADATA)
           metadatas == AddMetadatas(req)
       IN IF fault = "client" \/ ~AddAccepted(req.ids, req.documents, metadatas)
          THEN /\ index' = index
               /\ last' = Returned("collection_add", name, req, fault,
                             [status |-> "error", count |-> 0,
                              error |-> IF fault = "client"
                                        THEN "index failure" ELSE "bad input"])
          ELSE IF fault = "collection"
          THEN /\ index' = col
               /\ last' = Returned("collection_add", name, req, fault,
                             [status |-> "error", count |-> 0, error |-> "index failure"])
          ELSE /\ index' = WithDocs(col, name,
                              col_add(DocsOf(col, name), req.ids, req.documents, metadatas))
               /\ last' = Returned("collection_add", name, req, fault,
                             [status |-> "ok", count |-> Len(req.ids), error |-> "None"])
    /\ UNCHANGED emb

\* line 118-135
collection_add(name, req, fault) ==
    /\ Idle
    /\ LET col == client_get_or_create_collection(index, name,
                                                  DEFAULT_COLLECTION_METADATA)
           metadatas == AddMetadatas(req)
       IN IF fault = "client"
          THEN /\ index' = index
               /\ last' = Returned("collection_add", name, req, fault,
                             [status |-> "error", count |-> 0, error |-> "index failure"])
          ELSE IF fault = "collection"
                  \/ ~AddAccepted(req.ids, req.documents, metadatas)
          THEN /\ index' = col
               /\ last' = Returned("collection_add", name, req, fault,
                             [status |-> "error", count |-> 0,
                              error |-> IF fault = "collection"
                                        THEN "index failure" ELSE "bad input"])
          ELSE /\ index' = WithDocs(col, name,
                              col_add(DocsOf(col, name), req.ids, req.documents, metadatas))
               /\ last' = Returned("collection_add", name, req, fault,
                             [status |-> "ok", count |-> Len(req.ids), error |-> "None"])
    /\ UNCHANGED emb

\* line 137-144
collection_delete_docs(name, req, fault) ==
    /\ Idle
    /\ LET col == client_get_or_create_collection(index, name,
                                                  DEFAULT_COLLECTION_METADATA)
       IN IF fault = "client"
          THEN /\ index' = index
               /\ last' = Returned("collection_delete_docs", name, req, fault,
                             [deleted |-> 0, error |-> "index failure"])
          ELSE IF fault = "collection" \/ ~DeleteAccepted(req.ids)
          THEN /\ index' = col
               /\ last' = Returned("collection_delete_docs", name, req, fault,
                             [deleted |-> 0,
                              error |-> IF fault = "collection"
                                        THEN "index failure" ELSE "bad input"])
          ELSE /\ index' = WithDocs(col, name, col_delete(DocsOf(col, name), req.ids))
               /\ last' = Returned("collection_delete_docs", name, req, fault,
                             [deleted |-> Len(req.ids), error |-> "None"])
    /\ UNCHANGED emb

\* a query that takes the documents it returns out of the collection
collection_query_consuming(name, req, fault) ==
    /\ Idle
    /\ LET col == client_get_or_create_collection(index, name,
                                                  DEFAULT_COLLECTION_METADATA)
       IN IF fault = "client"
          THEN /\ index' = index
               /\ last' = Returned("collection_query", name, req, fault,
                             [results |-> None, error |-> "index failure"])
          ELSE IF fault = "collection" \/ ~QueryAccepted(req)
          THEN /\ index' = col
               /\ last' = Returned("collection_query", name, req, fault,
                             [results |-> None,
                              error |-> IF fault = "collection"
                                        THEN "index failure" ELSE "bad input"])
          ELSE \E results \in QueryResults(DocsOf(col, name), req.n_results) :
                  /\ index' = WithDocs(col, name, DocsOf(col, name) \ results)
                  /\ last' = Returned("collection_query", name, req, fault,
                                      [results |-> Some(results), error |-> "None"])
    /\ UNCHANGED emb

\* line 146-157
collection_query(name, req, fault) ==
    /\ Idle
    /\ LET col == client_get_or_create_collection(index, name,
                                                  DEFAULT_COLLECTION_METADATA)
       IN IF fault = "client"
          THEN /\ index' = index
               /\ last' = Returned("collection_query", name, req, fault,
                             [results |-> None, error |-> "index failure"])
          ELSE IF fault = "collection" \/ ~QueryAccepted(req)
          THEN /\ index' = col
               /\ last' = Returned("collection_query", name, req, fault,
                             [results |-> None,
                              error |-> IF fault = "collection"
                                        THEN "index failure" ELSE "bad input"])
          ELSE /\ index' = col
               /\ \E results \in QueryResults(DocsOf(col, name), req.n_results) :
                     last' = Returned("collection_query", name, req, fault,
                                      [results |-> Some(results), error |-> "None"])
    /\ UNCHANGED emb

\* model.encode(texts): one vector per text, in order
encode(texts) == [k \in DOMAIN texts |-> <<"vector", texts[k]>>]

\* line 159-164
embed(req) ==
    /\ Idle
    /\ last' = Returned("embed", "", req, "none",
                  [vectors |-> IF req.texts = <<>> THEN <<>> ELSE encode(req.texts)])
    /\ UNCHANGED <<emb, index>>

\* app.py line 22-24: the embedding service's health, which runs no sub-check
app_health ==
    /\ Idle
    /\ last' = Returned("app_health", "", None, "none", [status |-> "ok"])
    /\ UNCHANGED <<emb, index>>

\* the response leaves the gateway, which is idle again
ReturnResponse ==
    /\ ~Idle
    /\ last' = NoRequest
    /\ UNCHANGED <<emb, index>>

(***************************************************************************)
(* embedding/app.py: POST /v1/embeddings, whose frame is held in last      *)
(* while the comprehension of line 19 calls compute_embedding text by text *)
(***************************************************************************)
\* longest texts list of an embeddings request
MaxBatch == 2

\* the texts an embeddings request carries: without a token, with one token,
\* and with the same two tokens in either order
BatchTexts ==
    {<<>>, <<" ">>, <<"a">>, <<"a", " ", "b">>, <<"b", " ", "a">>}

\* EmbeddingRequest (app.py line 11-12)
EmbeddingRequests == {[texts |-> texts] : texts \in SeqsUpTo(BatchTexts, MaxBatch)}

\* the handler's frame: embs is the list built so far, calling says that a
\* compute_embedding call is running, raised that one ended in an exception
\* (which leaves the handler), returned that line 20 was reached
EmbeddingsFrame(req) ==
    [op |-> "embeddings", req |-> req, embs |-> <<>>, calling |-> FALSE,
     raised |-> FALSE, returned |-> FALSE]

\* line 19: the comprehension calls compute_embedding on the next text
embeddings_call ==
    /\ ~last.calling /\ ~last.raised /\ ~last.returned
    /\ Len(last.embs) < Len(last.req.texts)
    /\ emb' = EmbFrame(last.req.texts[Len(last.embs) + 1])
    /\ last' = [last EXCEPT !.calling = TRUE]
    /\ UNCHANGED index

\* one step of the compute_embedding call that is running
embeddings_step ==
    /\ last.calling
    /\ compute_embedding

\* line 19: the call returned, its vector is the next element of embs
embeddings_collect ==
    /\ last.calling
    /\ emb.pc = "done"
    /\ last' = [last EXCEPT !.calling = FALSE, !.embs = Append(last.embs, emb.out)]
    /\ UNCHANGED <<emb, index>>

\* line 19: the call raised, the exception leaves the handler
embeddings_raise ==
    /\ last.calling
    /\ emb.pc = "raised"
    /\ last' = [last EXCEPT !.calling = FALSE, !.raised = TRUE]
    /\ UNCHANGED <<emb, index>>

\* line 20: every text has its vector, the response is built from embs
embeddings_return ==
    /\ ~last.calling /\ ~last.raised /\ ~last.returned
    /\ Len(last.embs) = Len(last.req.texts)
    /\ last' = [last EXCEPT !.returned = TRUE]
    /\ UNCHANGED <<emb, index>>

(***************************************************************************)
(* embedding/chroma_server.py: collection_add running concurrently with    *)
(* collection_delete on the same name.  Each index call is one step; last  *)
(* holds both handlers' frames.  The handle col of collection_add goes     *)
(* stale when the collection it names is deleted, and a write through a    *)
(* stale handle fails.                                                     *)
(***************************************************************************)
\* the index when the two requests arrive: empty, the collection present
\* without documents, or present holding a document
ConcurrentIndexes ==
    {{},
     {[name |-> "docs", metadata |-> DEFAULT_COLLECTION_METADATA, docs |-> {}]},
     {[name |-> "docs", metadata |-> DEFAULT_COLLECTION_METADATA,
       docs |-> {[id |-> "a", document |-> "dog", metadata |-> {<<"id", "a">>}]}]}}

ConcurrentFrame(name, req) ==
    [op |-> "concurrent", name |-> name, req |-> req,
     add_pc |-> "start", stale |-> FALSE,
     add_body |-> [status |-> "none", count |-> 0, error |-> "None"],
     delete_pc |-> "start", delete_raised |-> FALSE]

\* line 121: collection_add's get_or_create_collection
collection_add_get_or_create ==
    /\ last.add_pc = "start"
    /\ index' = client_get_or_create_collection(index, last.name,
                                                DEFAULT_COLLECTION_METADATA)
    /\ last' = [last EXCEPT !.add_pc = "got", !.stale = FALSE]
    /\ UNCHANGED emb

\* a col.add that, through a stale handle, creates the collection again
collection_add_col_add_reviving ==
    /\ last.add_pc = "got"
    /\ LET metadatas == AddMetadatas(last.req)
           col == client_get_or_create_collection(index, last.name,
                                                  DEFAULT_COLLECTION_METADATA)
       IN IF ~AddAccepted(last.req.ids, last.req.documents, metadatas)
          THEN /\ index' = index
               /\ last' = [last EXCEPT !.add_pc = "done",
                             !.add_body = [status |-> "error", count |-> 0,
                                           error |-> "bad input"]]
          ELSE /\ index' = WithDocs(col, last.name,
                              col_add(DocsOf(col, last.name), last.req.ids,
                                      last.req.documents, metadatas))
               /\ last' = [last EXCEPT !.add_pc = "done",
                             !.add_body = [status |-> "ok",
                                           count |-> Len(last.req.ids),
                                           error |-> "None"]]
    /\ UNCHANGED emb

\* line 122-135: collection_add's col.add through the handle, and the
\* response
collection_add_col_add ==
    /\ last.add_pc = "got"
    /\ LET metadatas == AddMetadatas(last.req)
       IN IF last.stale \/ ~AddAccepted(last.req.ids, last.req.documents, metadatas)
          THEN /\ index' = index
               /\ last' = [last EXCEPT !.add_pc = "done",
                             !.add_body = [status |-> "error", count |-> 0,
                                           error |-> IF last.stale
                                                     THEN "does not exist"
                                                     ELSE "bad input"]]
          ELSE /\ index' = WithDocs(index, last.name,
                              col_add(DocsOf(index, last.name), last.req.ids,
                                      last.req.documents, metadatas))
               /\ last' = [last EXCEPT !.add_pc = "done",
                             !.add_body = [status |-> "ok",
                                           count |-> Len(last.req.ids),
                                           error |-> "None"]]
    /\ UNCHANGED emb

\* line 110-116: collection_delete's delete_collection, which raises on an
\* absent name; a handle collection_add holds at that moment goes stale
collection_delete_concurrent ==
    /\ last.delete_pc = "start"
    /\ IF last.name \in Present(index)
       THEN /\ index' = client_delete_collection(index, last.name)
            /\ last' = [last EXCEPT !.delete_pc = "done",
                                    !.stale = (last.add_pc = "got")]
       ELSE /\ index' = index
            /\ last' = [last EXCEPT !.delete_pc = "done", !.delete_raised = TRUE]
    /\ UNCHANGED emb

(***************************************************************************)
(* Specifications                                                          *)
(***************************************************************************)
\* the gateway after start-up: PersistentClient on an empty store
Init ==
    /\ emb = EmbFrame(<<>>)
    /\ index = {}
    /\ last = NoRequest

Next ==
    \/ \E fault \in Faults \ {"collection"} : health(fault)
    \/ \E fault \in Faults \ {"collection"} : list_collections(fault)
    \/ \E name \in Names, fault \in Faults \ {"collection"} : collection_exists(name, fault)
    \/ \E name \in Names, fault \in Faults : collection_count(name, fault)
    \/ \E name \in Names, fault \in Faults \ {"collection"} : collection_create(name, fault)
    \/ \E name \in Names, fault \in Faults \ {"collection"} : collection_delete(name, fault)
    \/ \E name \in Names, req \in AddDocumentsRequests, fault \in Faults :
          collection_add(name, req, fault)
    \/ \E name \in Names, req \in DeleteDocumentsRequests, fault \in Faults :
          collection_delete_docs(name, req, fault)
    \/ \E name \in Names, req \in QueryRequests, fault \in Faults :
          collection_query(name, req, fault)
    \/ \E req \in EmbedRequests : embed(req)
    \/ app_health
    \/ ReturnResponse

Spec == Init /\ [][Next]_vars

\* compute_embedding called on one text
InitEmbed ==
    /\ \E text \in InputTexts : emb = EmbFrame(text)
    /\ index = {}
    /\ last = NoRequest

NextEmbed == compute_embedding

SpecEmbed == InitEmbed /\ [][NextEmbed]_vars

\* the embedding service handling one POST /v1/embeddings
InitEmbeddings ==
    /\ emb = EmbFrame(<<>>)
    /\ index = {}
    /\ \E req \in EmbeddingRequests : last = EmbeddingsFrame(req)

NextEmbeddings ==
    \/ embeddings_call
    \/ embeddings_step
    \/ embeddings_collect
    \/ embeddings_raise
    \/ embeddings_return

SpecEmbeddings == InitEmbeddings /\ [][NextEmbeddings]_vars

\* the gateway handling add_documents(name, req) and delete_collection(name)
\* at the same time
InitConcurrent ==
    /\ emb = EmbFrame(<<>>)
    /\ index \in ConcurrentIndexes
    /\ \E name \in Names, req \in AddDocumentsRequests :
          last = ConcurrentFrame(name, req)

NextConcurrent ==
    \/ collection_add_get_or_create
    \/ collection_add_col_add
    \/ collection_delete_concurrent

SpecConcurrent == InitConcurrent /\ [][NextConcurrent]_vars

(***************************************************************************)
(* Properties of compute_embedding, checked under SpecEmbed                *)
(***************************************************************************)
\* C1: compute_embedding(text) returns, without raising, a vector of exactly
\* EMBED_DIM = 128 components for every input text: the call never ends in
\* an exception, and what it returns has 128 components.
C1_ReturnsDimVector ==
    /\ emb.pc # "raised"
    /\ emb.pc = "done" => Cardinality(DOMAIN emb.out.num) = EMBED_DIM

\* C2: for every token and every output index i in [0, 128) the inner loop
\* adds byte (i mod 32) of the token's digest to accumulator i, so that
\* before normalisation accumulator i equals accumulator i + 32 for every
\* i in [0, 96).
C2_DigestRepeatsCyclically ==
    /\ [][(emb.pc = "inner" /\ emb.i < EMBED_DIM) =>
            /\ emb'.pc = "inner"
            /\ emb'.vec[emb.i] =
                   emb.vec[emb.i] + ByteAt(emb.h, emb.i % DIGEST_SIZE)]_vars
    /\ [](emb.pc = "normalize" =>
            \A j \in 0..(EMBED_DIM - DIGEST_SIZE - 1) :
                emb.vec[j] = emb.vec[j + DIGEST_SIZE])

(***************************************************************************)
(* Properties of the gateway, checked under Spec.  In a step that handles  *)
(* a request, index is the index before the handler ran, index' the index  *)
(* after it, and last' the request with its response.                      *)
(***************************************************************************)
GetOrCreateOps ==
    {"collection_create", "collection_add", "collection_delete_docs", "collection_query"}

\* the documents of the collection the handled request names, before and after
Before == DocsOf(index, last'.name)

After == DocsOf(index', last'.name)

\* C3: create_collection(name) is idempotent.  Whenever the index call does
\* not fail, the call returns created = true with no error, exactly one
\* collection of that name exists afterwards, and a call on a name that is
\* already present (as every second call in a row is) changes nothing: the
\* collection and its documents stay as they were.
C3_CreateIdempotent ==
    [][(last'.op = "collection_create" /\ last'.fault = "none") =>
          /\ ~last'.raised
          /\ last'.body.created
          /\ last'.body.error = "None"
          /\ Cardinality(Named(index', last'.name)) = 1
          /\ last'.name \in Present(index) => index' = index
          /\ \A c \in index : c \in index']_vars

\* a create answered created = true on a collection that holds documents
C3_Witness ==
    /\ last.op = "collection_create"
    /\ last.fault = "none"
    /\ last.body.created
    /\ DocsOf(index, last.name) # {}

\* C4 as claimed: every operation that accepts a name, collection_exists
\* included, leaves the name present (given that its first index call does
\* not fail), except collection_count and delete_collection, which signal an
\* error on an absent name.
C4_EveryNamedOpCreates ==
    [][/\ (/\ last'.op \in GetOrCreateOps \cup {"collection_exists"}
           /\ last'.fault # "client") => last'.name \in Present(index')
       /\ (/\ last'.op \in {"collection_count", "collection_delete"}
           /\ last'.name \notin Present(index)) => last'.raised]_vars

\* C4 amended: create_collection, add_documents, delete_documents and query
\* leave the name present whenever their get-or-create call does not fail;
\* collection_exists, collection_count and delete_collection never create
\* it: on an absent name the index is unchanged, collection_exists returns
\* exists = false with a diagnostic and the other two signal an error.
C4_Transitions ==
    [][/\ (last'.op \in GetOrCreateOps /\ last'.fault # "client") =>
              last'.name \in Present(index')
       /\ (/\ last'.op \in {"collection_exists", "collection_count", "collection_delete"}
           /\ last'.name \notin Present(index)) =>
              /\ index' = index
              /\ last'.op # "collection_exists" => last'.raised
              /\ last'.op = "collection_exists" =>
                    /\ ~last'.raised
                    /\ ~last'.body.exists
                    /\ last'.body.error # "None"]_vars

\* collection_exists answered on an absent name, which is still absent
C4_Witness ==
    /\ last.op = "collection_exists"
    /\ last.fault = "none"
    /\ ~last.body.exists
    /\ last.name \notin Present(index)

\* C5: a collection that is present becomes absent only through
\* delete_collection on its name; every other operation, on any name,
\* leaves every present collection present.
C5_OnlyDeleteRemoves ==
    [][\A c \in index :
          c.name \notin Present(index') =>
             (last'.op = "collection_delete" /\ last'.name = c.name)]_vars

\* delete_documents has emptied a collection, which is still present
C5_Witness ==
    /\ last.op = "collection_delete_docs"
    /\ last.body.deleted = 2
    /\ last.name \in Present(index)
    /\ DocsOf(index, last.name) = {}
    /\ Cardinality(index) = Cardinality(Names)

\* C6: delete_collection(name) on an absent name signals a hard error, the
\* index's not-found, and changes no collection and no document; on a
\* present name it removes that collection with all its documents and leaves
\* every other collection unchanged (unless the index call itself fails,
\* which is a hard error too and changes nothing).
C6_DeleteCollection ==
    [][last'.op = "collection_delete" =>
          IF last'.name \notin Present(index)
          THEN /\ last'.raised
               /\ last'.fault = "none" => last'.body.cause = "does not exist"
               /\ index' = index
          ELSE IF last'.fault = "none"
          THEN /\ ~last'.raised
               /\ last'.body.deleted
               /\ last'.name \notin Present(index')
               /\ index' = {c \in index : c.name # last'.name}
          ELSE /\ last'.raised
               /\ index' = index]_vars

\* delete_collection has removed one collection while another holds documents
C6_Witness ==
    /\ last.op = "collection_delete"
    /\ ~last.raised
    /\ last.name \notin Present(index)
    /\ \E c \in index : c.docs # {}

\* C7: collection_count(name) never creates a collection and changes
\* nothing; on an absent name it signals a hard error, on a present name it
\* returns the number of documents in that collection (unless the index
\* call itself fails, which is a hard error too).
C7_CountProbe ==
    [][last'.op = "collection_count" =>
          /\ index' = index
          /\ IF last'.name \notin Present(index) \/ last'.fault # "none"
             THEN last'.raised
             ELSE /\ ~last'.raised
                  /\ last'.body.count = Cardinality(Before)]_vars

\* collection_count has signalled not-found, and the name is still absent
C7_Witness ==
    /\ last.op = "collection_count"
    /\ last.raised
    /\ last.body.cause = "does not exist"
    /\ last.name \notin Present(index)

FailureNormalizingOps ==
    {"collection_exists", "collection_add", "collection_delete_docs", "collection_query"}

Submitted(req, p) ==
    [id |-> req.ids[p], document |-> req.documents[p],
     metadata |-> AddMetadatas(req)[p]]

C11_MetadataHandedOver ==
    [][last'.op = "collection_add" =>
          /\ last'.body.status = "ok" =>
                \A p \in DOMAIN last'.req.ids :
                   last'.req.ids[p] \notin DocIds(Before) =>
                      \E d \in After :
                         /\ d.id = last'.req.ids[p]
                         /\ d.metadata =
                               IF last'.req.metadatas.some
                               THEN last'.req.metadatas.val[p]
                               ELSE {<<"id", last'.req.ids[p]>>}
          /\ (/\ last'.req.metadatas.some
              /\ \E p \in DOMAIN last'.req.metadatas.val :
                    last'.req.metadatas.val[p] = EmptyMeta) =>
                last'.body.status = "error"]_vars

\* add_documents of ids [a, b] without metadatas has written b with {"id": b}
C11_Witness ==
    /\ last.op = "collection_add"
    /\ last.body.status = "ok"
    /\ ~last.req.metadatas.some
    /\ last.req.ids = <<"a", "b">>
    /\ \E d \in DocsOf(index, last.name) :
          d.id = "b" /\ d.metadata = {<<"id", "b">>}

\* C12: in every reachable state every collection created through the
\* gateway has a non-empty metadata mapping and every persisted document has
\* a non-empty metadata mapping, also after add_documents was called with a
\* metadatas list that contains an empty mapping.
C12_MetadataNeverEmpty ==
    \A c \in index :
       /\ c.metadata # EmptyMeta
       /\ \A d \in c.docs : d.metadata # EmptyMeta

\* add_documents was called with an empty mapping among its metadatas, on a
\* collection that holds documents
C12_Witness ==
    /\ last.op = "collection_add"
    /\ last.fault = "none"
    /\ last.req.metadatas.some
    /\ \E p \in DOMAIN last.req.metadatas.val : last.req.metadatas.val[p] = EmptyMeta
    /\ last.name \in Present(index)
    /\ DocsOf(index, last.name) # {}

\* C13 (as stated): delete_documents(name, ids), when the index call does
\* not fail for reasons of its own, does not raise, returns deleted =
\* len(ids) whether or not the ids are in the collection, removes nothing
\* when none of them is, and otherwise removes the ids that are present and
\* leaves every other document of the collection unchanged.
C13_DeleteEchoesCount ==
    [][(last'.op = "collection_delete_docs" /\ last'.fault = "none") =>
          /\ ~last'.raised
          /\ last'.body.deleted = Len(last'.req.ids)
          /\ After = {d \in Before : d.id \notin Range(last'.req.ids)}
          /\ (Range(last'.req.ids) \cap DocIds(Before) = {} => After = Before)]_vars

\* C13 (amended): delete_documents(name, ids) with a non-empty list of
\* distinct ids, when the index call does not fail, does not raise, returns
\* deleted = len(ids) with no diagnostic whether or not the ids are in the
\* collection, removes exactly the documents whose id is listed and changes
\* no other collection; with an empty list or a list that names an id twice
\* it returns deleted = 0 with a diagnostic and removes nothing.
C13_DeleteDistinctIds ==
    [][(last'.op = "collection_delete_docs" /\ last'.fault = "none") =>
          /\ ~last'.raised
          /\ \A c \in index : c.name # last'.name => c \in index'
          /\ IF /\ Len(last'.req.ids) > 0
                /\ \A p, q \in DOMAIN last'.req.ids :
                      last'.req.ids[p] = last'.req.ids[q] => p = q
             THEN /\ last'.body.deleted = Len(last'.req.ids)
                  /\ last'.body.error = "None"
                  /\ After = {d \in Before : d.id \notin Range(last'.req.ids)}
             ELSE /\ last'.body.deleted = 0
                  /\ last'.body.error # "None"
                  /\ After = Before]_vars

\* delete_documents of one id has returned deleted = 1 and the collection
\* still holds its other document
C13_Witness ==
    /\ last.op = "collection_delete_docs"
    /\ last.fault = "none"
    /\ last.req.ids = <<"b">>
    /\ last.body.deleted = 1
    /\ last.body.error = "None"
    /\ DocIds(DocsOf(index, last.name)) = {"a"}

\* C14: the gateway's health reports status "degraded" exactly when the
\* model sub-check or the index sub-check (listing the collections) fails
\* and "ok" exactly when both succeed; the embedding service's health runs
\* no sub-check, so none can fail, and reports "ok".
C14_HealthStatus ==
    /\ last.op = "health" =>
          /\ last.body.chroma_ready <=> (last.fault = "none")
          /\ (last.body.status = "degraded") <=>
                (~last.body.model_ready \/ ~last.body.chroma_ready)
          /\ (last.body.status = "ok") <=>
                (last.body.model_ready /\ last.body.chroma_ready)
    /\ last.op = "app_health" => last.body.status = "ok"

\* the gateway's health ran while listing the collections failed
C14_Witness ==
    /\ last.op = "health"
    /\ last.fault = "client"
    /\ ~last.body.chroma_ready
    /\ last.body.model_ready
    /\ last.body.status = "degraded"

\* C18: add_documents called with ids and documents of different lengths
\* does not raise, returns status "error" and count 0 with a diagnostic,
\* and writes nothing: the collection holds the documents it held before
\* and no other collection changes.  Unless get-or-create itself failed, the
\* collection exists afterwards.
C18_LengthMismatch ==
    [][(/\ last'.op = "collection_add"
        /\ Len(last'.req.ids) # Len(last'.req.documents)) =>
          /\ ~last'.raised
          /\ last'.body.status = "error"
          /\ last'.body.count = 0
          /\ last'.body.error # "None"
          /\ After = Before
          /\ \A c \in index : c \in index'
          /\ last'.fault # "client" => last'.name \in Present(index')]_vars

\* add_documents of two ids with one text was answered with count 0 and
\* the collection is there, without documents
C18_Witness ==
    /\ last.op = "collection_add"
    /\ last.fault = "none"
    /\ last.req.ids = <<"a", "b">>
    /\ last.req.documents = <<"cat">>
    /\ ~last.req.metadatas.some
    /\ last.body.count = 0
    /\ last.body.error = "bad input"
    /\ last.name \in Present(index)
    /\ DocsOf(index, last.name) = {}

ReadOps ==
    {"list_collections", "collection_exists", "collection_count",
     "collection_query", "health"}

\* C19: list_collections, collection_exists, collection_count, query and
\* health never add, remove or modify a document: after any of them every
\* collection that existed before is there with the same metadata and
\* exactly the same documents, and a collection that is new was created by
\* query, under the name queried, and is empty.
C19_ReadOpsFrame ==
    [][last'.op \in ReadOps =>
          /\ \A c \in index : c \in index'
          /\ \A c \in index' \ index :
                /\ last'.op = "collection_query"
                /\ c.name = last'.name
                /\ c.docs = {}]_vars

\* a query has returned a document of a collection that holds two, and
\* holds both after it
C19_Witness ==
    /\ last.op = "collection_query"
    /\ last.body.error = "None"
    /\ last.req.n_results = 1
    /\ last.body.results.some
    /\ Cardinality(last.body.results.val) = 1
    /\ last.body.results.val \subseteq DocsOf(index, last.name)
    /\ Cardinality(DocsOf(index, last.name)) = 2

(***************************************************************************)
(* Properties of POST /v1/embeddings, checked under SpecEmbeddings         *)
(***************************************************************************)
\* C15: the batch embed operation, given N texts, returns exactly N vectors,
\* vector k being the embedding of text k: the handler does not end in an
\* exception, every vector it collects is what compute_embedding returned
\* for the text at that position, it returns once it holds N vectors, and
\* for an empty sequence it never invokes compute_embedding.
C15_BatchInOrder ==
    /\ [](~last.raised)
    /\ [](last.returned => Len(last.embs) = Len(last.req.texts))
    /\ [][last'.embs # last.embs =>
            /\ emb.pc = "done"
            /\ emb.text = last.req.texts[Len(last'.embs)]
            /\ last'.embs = Append(last.embs, emb.out)]_vars
    /\ [][last.req.texts = <<>> => emb' = emb]_vars

\* how often tok occurs among tokens
Occurrences(tokens, tok) == Cardinality({p \in DOMAIN tokens : tokens[p] = tok})

\* the two texts split into the same multiset of tokens
SameTokenMultiset(s, t) ==
    \A tok \in Range(split(s)) \cup Range(split(t)) :
       Occurrences(split(s), tok) = Occurrences(split(t), tok)

\* C16: compute_embedding is invariant under token reordering: called on two
\* texts whose whitespace-split tokens form the same multiset (the two texts
\* of a request, one call after the other), it returns for both, and returns
\* equal vectors.
C16_TokenOrderInvariant ==
    (/\ Len(last.req.texts) = 2
     /\ SameTokenMultiset(last.req.texts[1], last.req.texts[2])) =>
        /\ ~last.raised
        /\ Len(last.embs) = 2 => last.embs[1] = last.embs[2]

(***************************************************************************)
(* A further property of compute_embedding, checked under SpecEmbed        *)
(***************************************************************************)
\* C17: for every text with at least one token compute_embedding returns a
\* vector of Euclidean norm 1 (the accumulated vector divided by its norm,
\* which is positive); for a text without tokens it returns the all-zero
\* vector.
C17_UnitNormOrZero ==
    emb.pc \in {"done", "raised"} =>
       IF emb.tokens # <<>>
       THEN /\ emb.pc = "done"
            /\ emb.out.norm2 > 0
       ELSE /\ emb.pc = "done"
            /\ emb.out.num = zeros

====
